---- MODULE Spec2Model ----
(***************************************************************************)
(* Model of State (src/src/state.cpp): the constructor, evolve(),          *)
(* calcInternalForces() and enforcePBC() of the active Brownian particle   *)
(* simulation.                                                             *)
(*                                                                         *)
(* Numbers.  A length (a double in the code) is an integer count of grid   *)
(* steps of 1/Unit, so that 1.0 is Unit; an angle is an integer count of   *)
(* quarter turns, so that 2*pi is TwoPi and sin, cos are exact; the factor *)
(* u of the pair force is a fixed-point number with denominator FScale; a  *)
(* force component is an integer with denominator FScale * Unit.           *)
(***************************************************************************)
EXTENDS Integers, Sequences, FiniteSets, TLC

VARIABLES pc, variant, use_mkl, len, n_parts, pot_strength, activity, dt,
          stddev_temp, stddev_rot, positions, angles, forces, force_writes,
          steps

vars == <<pc, variant, use_mkl, len, n_parts, pot_strength, activity, dt,
          stddev_temp, stddev_rot, positions, angles, forces, force_writes,
          steps>>

params == <<variant, use_mkl, len, n_parts, pot_strength, activity, dt,
            stddev_temp, stddev_rot>>

----------------------------------------------------------------------------
(* Bounds of the model *)

MaxLen == 3
MaxParts == 2
MaxNoise == 2
MaxSteps == 2

(* The inputs of the constructor *)
Lengths == 3..MaxLen
PartCounts == {1, 2}
Strengths == {0, 1, 2}
Activities == {0, 1}
Timesteps == {1}
Temperatures == {0, 1}
RotDiffs == {0, 1}
(* Two particles are not run with both noises at once *)
Regimes == {a \in PartCounts \X Temperatures \X RotDiffs :
               a[1] = 1 \/ a[2] = 0 \/ a[3] = 0}

(* Program constants *)

(* 1. (the cutoff), in grid steps *)
Unit == 2
(* 1.0 of the factor u, as a fixed-point number *)
FScale == 16
(* 2.0 * M_PI, in quarter turns *)
TwoPi == 4
(* M_PI as the fraction PiNum / PiDen *)
PiNum == 355
PiDen == 113

----------------------------------------------------------------------------
(* Arithmetic *)

Abs(x) == IF x < 0 THEN -x ELSE x

(* a / b rounded to the nearest integer, halves away from zero *)
RoundDiv(a, b) == IF a >= 0 THEN (2 * a + b) \div (2 * b)
                  ELSE -((2 * (-a) + b) \div (2 * b))

(* The integer part of the square root of n, for n < bound * bound *)
ISqrt(n, bound) == CHOOSE r \in 0..bound : r * r <= n /\ (r + 1) * (r + 1) > n

(* std::sqrt of a squared length dr2 < 1 (denominator Unit * Unit): the
   fixed-point root, denominator FScale, of the length in grid steps *)
Sqrt(dr2) == ISqrt(dr2 * FScale * FScale, Unit * FScale)

(* sincos(angles[i], &s, &c) *)
Cos(a) == <<1, 0, -1, 0>>[(a % TwoPi) + 1]
Sin(a) == <<0, 1, 0, -1>>[(a % TwoPi) + 1]

(* std::sqrt(2.0 * x * dt), in grid steps *)
Stddev(x, d) == ISqrt(2 * x * d * Unit * Unit, 2 * x * d * Unit)

(* Values of a Gaussian draw of the given standard deviation, in grid steps *)
Gaussian(stddev) == IF stddev = 0 THEN {0} ELSE {-MaxNoise, MaxNoise}

(* A double v (in grid steps of 1/Unit) as an angle in quarter turns:
   v / (pi / 2) *)
RadToAngle(v) == RoundDiv(2 * v * PiDen, Unit * PiNum)

Parts == 0..(n_parts - 1)

----------------------------------------------------------------------------
(* Periodic boundary conditions (state.h) *)

(* pbc(x, L): x modulo L, in [0, L) *)
pbc(x, L) == x - L * (x \div L)

(* pbcSym(x, L): x modulo L, in [-L/2, L/2) *)
pbcSym(x, L) == x - L * ((2 * x + L) \div (2 * L))

----------------------------------------------------------------------------
(* The boxes (boxes.h): a grid of n_boxes_x * n_boxes_x cells of side 1 *)

n_boxes_x == len
getNBoxes == n_boxes_x * n_boxes_x

BoxOf(pos, i) ==
    ((pos[1][i] \div Unit) % n_boxes_x) * n_boxes_x
        + ((pos[0][i] \div Unit) % n_boxes_x)

(* The cell itself and half of its eight neighbours, periodically *)
Stencil == << <<0, 0>>, <<1, 0>>, <<-1, 1>>, <<0, 1>>, <<1, 1>> >>

getNbrsPos(b) ==
    LET bx == b % n_boxes_x
        by == b \div n_boxes_x
    IN  [k \in 1..Len(Stencil) |->
            ((by + Stencil[k][2]) % n_boxes_x) * n_boxes_x
                + ((bx + Stencil[k][1]) % n_boxes_x)]

RECURSIVE PartsFrom(_, _, _)
PartsFrom(pos, b, i) ==
    IF i >= n_parts THEN <<>>
    ELSE (IF BoxOf(pos, i) = b THEN <<i>> ELSE <<>>) \o PartsFrom(pos, b, i + 1)

(* boxes.update(positions); getPartsOfBox(): for every cell the particles in
   it, in the order of their indices *)
getPartsOfBox(pos) == [b \in 0..(getNBoxes - 1) |-> PartsFrom(pos, b, 0)]

----------------------------------------------------------------------------
(* calcInternalForces *)

ZeroForces == [c \in 0..1 |-> [i \in Parts |-> 0]]

Dx(pos, i, j) == pbcSym(pos[0][i] - pos[0][j], len * Unit)
Dy(pos, i, j) == pbcSym(pos[1][i] - pos[1][j], len * Unit)
Dr2(pos, i, j) == Dx(pos, i, j) * Dx(pos, i, j) + Dy(pos, i, j) * Dy(pos, i, j)

(* The test without its lower bound: dr2 < 1. *)
InRange_NoLowerBound(dr2) == dr2 < Unit * Unit

(* dr2 * (1. - dr2) > 0. *)
InRange(dr2) == dr2 * (Unit * Unit - dr2) > 0

(* The factor without its "- 1.0" *)
U_NoOffset(dr2) == pot_strength * ((Unit * FScale * FScale) \div Sqrt(dr2))

(* pot_strength * (1.0 / std::sqrt(dr2) - 1.0) *)
U(dr2) == pot_strength * ((Unit * FScale * FScale) \div Sqrt(dr2) - FScale)

(* f with d added to forces[c][i] *)
AddTo(f, c, i, d) == [f EXCEPT ![c][i] = @ + d]

(* The body with forces[1][j] += fy in place of forces[1][j] -= fy *)
PairEval_SignSlip(f, pos, i, j) ==
    LET dx == Dx(pos, i, j)
        dy == Dy(pos, i, j)
        dr2 == dx * dx + dy * dy
    IN  IF InRange(dr2)
        THEN LET u == U(dr2)
                 fx == u * dx
                 fy == u * dy
             IN  AddTo(AddTo(AddTo(AddTo(f, 0, i, fx), 0, j, -fx),
                             1, i, fy), 1, j, fy)
        ELSE f

(* The body of the innermost loop, for the pair (i, j) *)
PairEval(f, pos, i, j) ==
    LET dx == Dx(pos, i, j)
        dy == Dy(pos, i, j)
        dr2 == dx * dx + dy * dy
    IN  IF InRange(dr2)
        THEN LET u == U(dr2)
                 fx == u * dx
                 fy == u * dy
             IN  AddTo(AddTo(AddTo(AddTo(f, 0, i, fx), 0, j, -fx),
                             1, i, fy), 1, j, -fy)
        ELSE f

(* The four nested loops, over b1, b2 of nbrs_pos[b1], i of parts_of_box[b1]
   and j of parts_of_box[b2]; f is the forces so far and g the forces after
   one iteration.  (The test on DOMAIN g is always false: it makes TLC
   evaluate g before the next iteration instead of nesting the iterations.) *)
RECURSIVE LoopJ(_, _, _, _, _)
LoopJ(f, pos, i, js, n) ==
    IF n > Len(js) THEN f
    ELSE LET g == PairEval(f, pos, i, js[n])
         IN  IF DOMAIN g = {} THEN g ELSE LoopJ(g, pos, i, js, n + 1)

RECURSIVE LoopI(_, _, _, _, _)
LoopI(f, pos, is, js, n) ==
    IF n > Len(is) THEN f
    ELSE LET g == LoopJ(f, pos, is[n], js, 1)
         IN  IF DOMAIN g = {} THEN g ELSE LoopI(g, pos, is, js, n + 1)

RECURSIVE LoopB2(_, _, _, _, _, _)
LoopB2(f, pos, parts_of_box, b1, nbrs, n) ==
    IF n > Len(nbrs) THEN f
    ELSE LET g == LoopI(f, pos, parts_of_box[b1], parts_of_box[nbrs[n]], 1)
         IN  IF DOMAIN g = {} THEN g
             ELSE LoopB2(g, pos, parts_of_box, b1, nbrs, n + 1)

RECURSIVE LoopB1(_, _, _, _)
LoopB1(f, pos, parts_of_box, b1) ==
    IF b1 >= getNBoxes THEN f
    ELSE LET g == LoopB2(f, pos, parts_of_box, b1, getNbrsPos(b1), 1)
         IN  IF DOMAIN g = {} THEN g ELSE LoopB1(g, pos, parts_of_box, b1 + 1)

(* The first loop left out *)
ClearForces_Missing(f) == f

(* The first loop: forces[0][i] = 0; forces[1][i] = 0 *)
ClearForces(f) == [c \in 0..1 |-> [i \in Parts |-> 0]]

calcInternalForces(f, pos) == LoopB1(ClearForces(f), pos, getPartsOfBox(pos), 0)

----------------------------------------------------------------------------
(* enforcePBC *)

(* enforcePBC without pbc(angles[i], 2.0 * M_PI) *)
enforcePBC_NoAngles(st) ==
    [positions |-> [c \in 0..1 |->
                       [i \in Parts |-> pbc(st.positions[c][i], len * Unit)]],
     angles |-> st.angles]

enforcePBC(st) ==
    [positions |-> [c \in 0..1 |->
                       [i \in Parts |-> pbc(st.positions[c][i], len * Unit)]],
     angles |-> [i \in Parts |-> pbc(st.angles[i], TwoPi)]]

----------------------------------------------------------------------------
(* evolve: the integration of one time step, before enforcePBC.  xi_x, xi_y
   and eta are the draws of the step, in the order the code makes them. *)

(* The drift with the factor activity left out *)
Drift_NoActivity(f, c, i, t) ==
    RoundDiv(dt * (f[c][i] + t * FScale * Unit), FScale)

(* dt * (forces[c][i] + activity * t), in grid steps *)
Drift(f, c, i, t) ==
    RoundDiv(dt * (f[c][i] + activity * t * FScale * Unit), FScale)

(* The loop of the build without USE_MKL (both variants) and of the second
   variant with USE_MKL *)
IntegrateLoop(pos, ang, f, xi_x, xi_y, eta) ==
    [positions |->
        [c \in 0..1 |-> [i \in Parts |->
            IF c = 0 THEN pos[0][i] + Drift(f, 0, i, Cos(ang[i])) + xi_x[i]
                     ELSE pos[1][i] + Drift(f, 1, i, Sin(ang[i])) + xi_y[i]]],
     angles |-> [i \in Parts |-> ang[i] + RadToAngle(eta[i])]]

(* The vector operations of the first variant with USE_MKL: aux_x and aux_y
   hold the drift, then the draws xi_x and xi_y; aux_angle holds eta *)
IntegrateMKL(pos, ang, f, xi_x, xi_y, eta) ==
    LET aux_x == xi_x
        aux_y == xi_y
        aux_angle == eta
    IN  [positions |->
            [c \in 0..1 |-> [i \in Parts |->
                IF c = 0 THEN pos[0][i] + Drift(f, 0, i, Cos(ang[i])) + aux_x[i]
                         ELSE pos[1][i] + Drift(f, 1, i, Sin(ang[i])) + aux_y[i]]],
         angles |-> [i \in Parts |-> ang[i] + RadToAngle(aux_x[i])]]

Integrate(v, mkl, pos, ang, f, xi_x, xi_y, eta) ==
    IF mkl /\ v = 1 THEN IntegrateMKL(pos, ang, f, xi_x, xi_y, eta)
    ELSE IntegrateLoop(pos, ang, f, xi_x, xi_y, eta)

(* State::evolve *)
evolve ==
    /\ pc = "ready"
    /\ steps < MaxSteps
    /\ forces' = calcInternalForces(forces, positions)
    /\ \E xi_x \in [Parts -> Gaussian(stddev_temp)],
          xi_y \in [Parts -> Gaussian(stddev_temp)],
          eta \in [Parts -> Gaussian(stddev_rot)] :
          LET st == enforcePBC(Integrate(variant, use_mkl, positions, angles,
                                         forces', xi_x, xi_y, eta))
          IN  /\ positions' = st.positions
              /\ angles' = st.angles
    /\ steps' = steps + 1
    /\ UNCHANGED <<pc, params, force_writes>>

----------------------------------------------------------------------------
(* The constructor *)

(* Values of a draw of rndPos, in grid steps: both ends of the box and a
   point half a unit from the lower end *)
RndPos(l) == {0, 1, l * Unit - 1}
(* Value of a draw of rndAngle, in quarter turns: the last below 2*pi *)
RndAngle == {TwoPi - 1}

(* The indices the constructor uses on the two-component container forces:
   forces[0].assign, forces[1].assign and, without USE_MKL, forces[i] = 0 and
   forces[n_parts + i] = 0 for every i *)
CtorForceWrites(n, mkl) ==
    {0, 1} \cup (IF mkl THEN {}
                 ELSE UNION {{i, n + i} : i \in 0..(n - 1)})

State ==
    /\ pc = "new"
    /\ \E v \in {1, 2}, mkl \in BOOLEAN, l \in Lengths, ntr \in Regimes,
          k \in Strengths, a \in Activities, d \in Timesteps :
          LET n == ntr[1]
              t == ntr[2]
              r == ntr[3]
          IN
          /\ variant' = v
          /\ use_mkl' = mkl
          /\ len' = l
          /\ n_parts' = n
          /\ pot_strength' = k
          /\ activity' = a
          /\ dt' = d
          /\ stddev_temp' = Stddev(t, d)
          /\ stddev_rot' = Stddev(r, d)
          /\ positions' \in [0..1 -> [0..(n - 1) -> RndPos(l)]]
          /\ angles' \in (IF mkl /\ v = 2 THEN {[i \in 0..(n - 1) |-> 0]}
                          ELSE [0..(n - 1) -> RndAngle])
          /\ forces' = [c \in 0..1 |-> [i \in 0..(n - 1) |-> 0]]
          /\ force_writes' = CtorForceWrites(n, mkl)
          \* A write outside the container is undefined behaviour: the
          \* construction either goes on or the program stops
          /\ pc' \in (IF CtorForceWrites(n, mkl) \subseteq {0, 1}
                      THEN {"ready"} ELSE {"ready", "crashed"})
    /\ steps' = 0

----------------------------------------------------------------------------
Init ==
    /\ pc = "new"
    /\ variant = 1
    /\ use_mkl = FALSE
    /\ len = 3
    /\ n_parts = 1
    /\ pot_strength = 0
    /\ activity = 0
    /\ dt = 1
    /\ stddev_temp = 0
    /\ stddev_rot = 0
    /\ positions = [c \in 0..1 |-> [i \in 0..0 |-> 0]]
    /\ angles = [i \in 0..0 |-> 0]
    /\ forces = [c \in 0..1 |-> [i \in 0..0 |-> 0]]
    /\ force_writes = {}
    /\ steps = 0

Next == State \/ evolve

Spec == Init /\ [][Next]_vars

----------------------------------------------------------------------------
(* calcInternalForces alone, on every configuration of the grid *)

InitForces ==
    /\ pc = "ready"
    /\ variant = 1
    /\ use_mkl = FALSE
    /\ len \in Lengths
    /\ n_parts \in 1..MaxParts
    /\ pot_strength \in Strengths
    /\ activity = 0
    /\ dt = 1
    /\ stddev_temp = 0
    /\ stddev_rot = 0
    /\ positions \in [0..1 -> [Parts -> 0..(len * Unit - 1)]]
    /\ angles = [i \in Parts |-> 0]
    /\ forces = ZeroForces
    /\ force_writes = {0, 1}
    /\ steps = 0

CalcForces ==
    /\ pc = "ready"
    /\ steps < MaxSteps
    /\ forces' = calcInternalForces(forces, positions)
    /\ steps' = steps + 1
    /\ UNCHANGED <<pc, params, positions, angles, force_writes>>

NextForces == CalcForces

SpecForces == InitForces /\ [][NextForces]_vars

----------------------------------------------------------------------------
(* Properties *)

NoNoise == stddev_temp = 0 /\ stddev_rot = 0

(* One call of evolve() or of calcInternalForces() *)
Stepped == pc = "ready" /\ steps' = steps + 1

(* C1: after every evolve(), every particle has 0 <= x < len, 0 <= y < len
   and 0 <= angle < 2*pi. *)
C1_Periodicity ==
    (pc = "ready" /\ steps >= 1) =>
        \A i \in Parts :
            /\ 0 <= positions[0][i] /\ positions[0][i] < len * Unit
            /\ 0 <= positions[1][i] /\ positions[1][i] < len * Unit
            /\ 0 <= angles[i] /\ angles[i] < TwoPi

(* After one step of a single free particle with both noises: x is two grid
   steps below len, which only a draw of -MaxNoise from x = 0 gives (x left
   the box below), and the angle is 0, which only a quarter turn added to
   2*pi - 1 gives (the angle left [0, 2*pi) above). *)
C1_Witness ==
    /\ pc = "ready" /\ steps = 1 /\ n_parts = 1 /\ ~use_mkl
    /\ pot_strength = 0 /\ activity = 0
    /\ stddev_temp > 0 /\ stddev_rot > 0
    /\ positions[0][0] = len * Unit - MaxNoise
    /\ angles[0] = 0

(* The force on every particle by a scan of all pairs: each other particle q
   contributes once, with the minimum-image displacement. *)
RECURSIVE BruteSum(_, _, _, _)
BruteSum(pos, c, p, q) ==
    IF q >= n_parts THEN 0
    ELSE (IF q = p THEN 0 ELSE PairEval(ZeroForces, pos, p, q)[c][p])
             + BruteSum(pos, c, p, q + 1)

BruteForce(pos) == [c \in 0..1 |-> [p \in Parts |-> BruteSum(pos, c, p, 0)]]

(* C2: calcInternalForces gives every particle the force of a brute-force
   scan of all pairs, each unordered pair within the cutoff applied once. *)
C2_PairCounting == (pc = "ready" /\ steps >= 1) => forces = BruteForce(positions)

RECURSIVE SumForces(_, _, _)
SumForces(f, c, i) ==
    IF i >= n_parts THEN 0 ELSE f[c][i] + SumForces(f, c, i + 1)

(* C3: a pair evaluation gives particle j the exact negation of what it
   gives particle i, and after calcInternalForces the force components summed
   over all particles are zero. *)
C3_NewtonThird ==
    (pc = "ready" /\ steps >= 1) =>
        /\ SumForces(forces, 0, 0) = 0
        /\ SumForces(forces, 1, 0) = 0
        /\ \A i, j \in Parts : \A c \in 0..1 :
              i # j =>
                LET g == PairEval(ZeroForces, positions, i, j)
                IN  g[c][j] = -g[c][i]

(* Two particles on a diagonal within the cutoff, after calcInternalForces:
   both components of the force are non-zero. *)
C3_Witness ==
    /\ pc = "ready" /\ steps >= 1 /\ n_parts = 2
    /\ forces[0][0] # 0 /\ forces[1][0] # 0

(* C4: the test dr2 * (1 - dr2) > 0 is 0 < dr2 < 1; a pair evaluation with
   dr2 = 0 (a particle with itself included), dr2 = 1 or dr2 > 1 leaves the
   forces as they are, and one with 0 < dr2 < 1 changes them (pot_strength
   > 0: with pot_strength = 0 what it adds is zero). *)
C4_Cutoff ==
    pc = "ready" =>
        \A i, j \in Parts :
            LET dr2 == Dr2(positions, i, j)
                within == 0 < dr2 /\ dr2 < Unit * Unit
            IN  /\ InRange(dr2) <=> within
                /\ ~within => PairEval(forces, positions, i, j) = forces
                /\ (within /\ pot_strength > 0)
                      => PairEval(forces, positions, i, j) # forces

(* Two particles at distance 1 exactly, after calcInternalForces: no force. *)
C4_Witness ==
    /\ pc = "ready" /\ steps >= 1 /\ n_parts = 2 /\ pot_strength > 0
    /\ Dr2(positions, 0, 1) = Unit * Unit
    /\ forces = ZeroForces

(* Two particles half a unit apart along x, no noise, no activity *)
C5_Scenario ==
    /\ pc = "ready" /\ n_parts = 2 /\ NoNoise /\ activity = 0
    /\ pot_strength > 0
    /\ Dy(positions, 0, 1) = 0
    /\ 2 * Abs(Dx(positions, 0, 1)) = Unit

(* Particle i moved along x by d grid steps away from particle j, before
   the wrap; y and the angle as they were *)
C5_MovedApart(i, j, d) ==
    /\ positions'[0][i] =
          pbc(positions[0][i]
                + (IF Dx(positions, i, j) > 0 THEN d ELSE -d), len * Unit)
    /\ positions'[1][i] = positions[1][i]
    /\ angles'[i] = angles[i]

(* C5 as stated: in the scenario one evolve() moves each particle by
   dt * k * (1/0.5 - 1) = dt * k away from the other, in the same cell or
   in adjacent cells. *)
C5_Original ==
    [][(C5_Scenario /\ Stepped) =>
          /\ C5_MovedApart(0, 1, dt * pot_strength * Unit)
          /\ C5_MovedApart(1, 0, dt * pot_strength * Unit)]_vars

(* C5 as amended: each particle moves away from the other by dt times the
   force calcInternalForces gave it: dt * k * (1/0.5 - 1) * 0.5 = dt * k / 2
   when the two are in different cells, and twice that, dt * k, when they are
   in the same cell. *)
C5_Repulsion ==
    [][(C5_Scenario /\ Stepped) =>
          LET d == IF BoxOf(positions, 0) = BoxOf(positions, 1)
                   THEN dt * pot_strength * Unit
                   ELSE dt * pot_strength * (Unit \div 2)
          IN  /\ d > 0
              /\ C5_MovedApart(0, 1, d)
              /\ C5_MovedApart(1, 0, d)]_vars

(* After the step of the scenario with the two particles in different
   cells: the force along x is that of one evaluation of a pair half a unit
   apart, u * dx = k * (Unit / 2), and there is none along y. *)
C5_Witness ==
    /\ pc = "ready" /\ steps = 1 /\ n_parts = 2 /\ NoNoise /\ activity = 0
    /\ pot_strength > 0
    /\ Abs(forces[0][0]) = pot_strength * FScale * (Unit \div 2)
    /\ forces[0][1] = -forces[0][0]
    /\ forces[1][0] = 0

(* C6: a single particle without activity or noise keeps its position and
   its angle in every evolve(), and gets no force (from itself). *)
C6_NoOp ==
    [][(Stepped /\ n_parts = 1 /\ activity = 0 /\ NoNoise) =>
          /\ positions' = positions
          /\ angles' = angles
          /\ forces' = ZeroForces]_vars

(* A single particle with pot_strength > 0, after two calls of evolve() *)
C6_Witness ==
    /\ pc = "ready" /\ steps = 2 /\ n_parts = 1 /\ activity = 0 /\ NoNoise
    /\ pot_strength > 0

(* C7: an angle changes in evolve() by the rotational draw only: with
   D_r = 0 (and any T) every angle stays as it is. *)
C7_AnglesOwnDraw ==
    [][(Stepped /\ stddev_rot = 0) => angles' = angles]_vars

(* C8: from the same positions, angles and draws, the USE_MKL branch and the
   scalar branch of evolve() give the same positions and angles. *)
C8_PathsAgree ==
    pc = "ready" =>
        LET f == calcInternalForces(forces, positions)
        IN  \A xi_x \in [Parts -> Gaussian(stddev_temp)],
               xi_y \in [Parts -> Gaussian(stddev_temp)],
               eta \in [Parts -> Gaussian(stddev_rot)] :
               \A v \in {1, 2} :
                  enforcePBC(Integrate(v, TRUE, positions, angles, f,
                                       xi_x, xi_y, eta))
                    = enforcePBC(Integrate(v, FALSE, positions, angles, f,
                                           xi_x, xi_y, eta))

(* C9: the forces after evolve() are those of the positions the step
   started from, accumulated from zero, whatever the forces were before. *)
C9_NoCarryOver ==
    [][Stepped => forces' = LoopB1(ZeroForces, positions, getPartsOfBox(positions), 0)]_vars

(* After two steps without noise or activity the forces are not zero: the
   two particles were within the cutoff before the second step, so (nothing
   else moves them) before the first too, and the first step left non-zero
   forces behind. *)
C9_Witness ==
    /\ pc = "ready" /\ steps = 2 /\ n_parts = 2 /\ NoNoise /\ activity = 0
    /\ forces # ZeroForces

(* C10: the constructor indexes the two-component container forces with 0
   and 1 only. *)
C10_CtorWritesInBounds == force_writes \subseteq {0, 1}

====
